---- MODULE Spec2Model ----
(***************************************************************************)
(* A model of the brainfuck interpreter of src/src/main.rs: the command    *)
(* (main), the run() pipeline (validate, lex_code, build_instruction,      *)
(* eval_instruction) and the recursive tree walk eval_liner, unfolded into *)
(* one step per executed instruction.                                      *)
(*                                                                         *)
(* Encodings.  A source is a sequence of one-character strings.  A Vec is  *)
(* a sequence, so the cell memory[*adress] of the code is memory[adress+1] *)
(* here.  An Op is its name as a string.  An Instruction is a record       *)
(* [kind |-> name], and a Loop carries its body: [kind |-> "Loop",         *)
(* body |-> <<...>>].  A Result is "Ok" or the error's message.            *)
(***************************************************************************)
EXTENDS Integers, Sequences, FiniteSets, TLC

VARIABLES
    pc,          \* where the process is: "main", "validate", "lex_code",
                 \* "build_instruction", "eval_instruction", "eval_liner",
                 \* "exited"
    args,        \* std::env::args(): the program name, then the arguments
    source,      \* Interpreter.source
    ops,         \* Interpreter.ops
    inst,        \* Interpreter.inst
    memory,      \* eval_instruction's memory : Vec<u8>
    adress,      \* eval_instruction's adress : usize
    stack,       \* the nest of eval_liner calls: the position of each call's
                 \* `for op in inst.iter()`, outermost first
    stdin,       \* the process's standard input: data, the whole byte
                 \* stream (known only from the first read on: nothing of
                 \* it shows before), pos, how many of its bytes are taken,
                 \* and reads, how many read_line calls have given a line
    stdout,      \* the bytes eval_liner has printed
    console,     \* the lines main has printed with println!
    stderr,      \* what the runtime has written to standard error
    exitCode,    \* <<>> while the process runs, <<code>> once it has exited
    overflow_checks,  \* the build's overflow checks: "on", "off", or "unset"
                      \* until the first overflow shows which build this is
    printed,     \* history: the cell values PrintChar was executed on
    phases,      \* history: the stages of run() entered so far
    ideal        \* history: the instructions executed so far, as done on a
                 \* two-way unbounded tape of bytes at signed positions:
                 \* pos, where that tape's head is, cells, what it holds,
                 \* and off, how often line 182 has put a cell in front

vars == <<pc, args, source, ops, inst, memory, adress, stack, stdin, stdout,
          console, stderr, exitCode, overflow_checks, printed, phases,
          ideal>>

(***************************************************************************)
(* Bounds and input sets                                                   *)
(***************************************************************************)
\* Every source of at most this many characters is run.
MaxSrcLen == 4
\* The tape grows to at most this many cells; a growing step beyond is cut.
MaxTape == 5
\* At most this many PrintChar are executed; a further one is cut.
MaxOut == 3

Control == {"+", "-", "<", ">", ".", ",", "[", "]"}
Comment == {"x"}
Alphabet == Control \cup Comment

\* Longer programs that are run as well: the transfer loop and the comment
\* of the specification's end-to-end scenarios, a loop in a loop, a loop
\* that echoes the first byte of every line, and the transfer loop on two
\* cells read from the input.
Scenarios ==
    { <<"+", "[", ">", "+", "<", "-", "]">>,
      <<"h", "e", "l", "l", "o", " ", "w", "o", "r", "l", "d">>,
      <<"+", "+", "[", ">", "+", "[", "-", "]", "<", "-", "]">>,
      <<",", "[", ".", ",", "]">>,
      <<">", ",", "<", ",", "[", ">", "+", "<", "-", "]">> }

Sources == UNION { [1..n -> Alphabet] : n \in 0..MaxSrcLen } \cup Scenarios

\* The command lines tried: no argument, the help flags, one path, two paths.
Argv ==
    { <<"bf">>, <<"bf", "-h">>, <<"bf", "--help">>, <<"bf", "prog.bf">>,
      <<"bf", "a.bf", "b.bf">> }

\* The byte streams tried as standard input: "" ; "\n" ; "ab\nc\n" ;
\* "b\n\na" (the last line unterminated) ; a NUL line then "a\n" ;
\* "éx\né" (two-byte UTF-8) ; a lone continuation byte (no UTF-8) ;
\* U+10FFFF (four-byte UTF-8, first byte 244) then "a\n".
Stdin ==
    { <<>>,
      <<244, 143, 191, 191, 10, 97, 10>>,
      <<10>>,
      <<97, 98, 10, 99, 10>>,
      <<98, 10, 10, 97>>,
      <<0, 10, 97, 10>>,
      <<195, 169, 120, 10, 195, 169>>,
      <<97, 10, 169, 10>> }

(***************************************************************************)
(* validate                                                                *)
(***************************************************************************)
RECURSIVE validateFrom(_, _, _)
validateFrom(s, i, count) ==
    IF i > Len(s)
    THEN IF count # 0 THEN "Invalid source." ELSE "Ok"
    ELSE LET c == s[i]
             count1 == CASE c = "[" -> count + 1
                         [] c = "]" -> count - 1
                         [] OTHER -> count
         IN IF count1 < 0
            THEN "Invalid source."
            ELSE validateFrom(s, i + 1, count1)

\* validate without the check of line 103: only the final count is looked at.
validate_end_only(s) ==
    IF Cardinality({ i \in 1..Len(s) : s[i] = "[" })
         = Cardinality({ i \in 1..Len(s) : s[i] = "]" })
    THEN "Ok"
    ELSE "Invalid source."

\* validate without the check of line 107: only the running count is
\* looked at.
validate_no_final(s) ==
    IF \E n \in 1..Len(s) :
          Cardinality({ i \in 1..n : s[i] = "]" })
            > Cardinality({ i \in 1..n : s[i] = "[" })
    THEN "Invalid source."
    ELSE "Ok"

validate(s) == validateFrom(s, 1, 0)

(***************************************************************************)
(* lex_code                                                                *)
(***************************************************************************)
\* The match of lex_code with the arms of '<' and '>' exchanged.
lex_char_swapped(c) ==
    CASE c = "+" -> <<"Increment">>
      [] c = "-" -> <<"Decrement">>
      [] c = "<" -> <<"ShiftRight">>
      [] c = ">" -> <<"ShiftLeft">>
      [] c = "." -> <<"PrintChar">>
      [] c = "," -> <<"GetChar">>
      [] c = "[" -> <<"LoopStart">>
      [] c = "]" -> <<"LoopEnd">>
      [] OTHER -> <<>>

\* The match of lex_code: Some(op) is <<op>>, None is <<>>.
lex_char(c) ==
    CASE c = "+" -> <<"Increment">>
      [] c = "-" -> <<"Decrement">>
      [] c = "<" -> <<"ShiftLeft">>
      [] c = ">" -> <<"ShiftRight">>
      [] c = "." -> <<"PrintChar">>
      [] c = "," -> <<"GetChar">>
      [] c = "[" -> <<"LoopStart">>
      [] c = "]" -> <<"LoopEnd">>
      [] OTHER -> <<>>

\* self.ops after lex_code, from self.ops = o before it: every Some is pushed.
RECURSIVE lex_from(_, _, _)
lex_from(s, i, o) ==
    IF i > Len(s) THEN o ELSE lex_from(s, i + 1, o \o lex_char(s[i]))

lex_code(s, o) == lex_from(s, 1, o)

(***************************************************************************)
(* build_instruction                                                       *)
(***************************************************************************)
Leaf(k) == [kind |-> k]

\* Instruction::Loop made of a new, empty Vec instead of inst.
Loop_empty(body) == [kind |-> "Loop", body |-> <<>>]

Loop(body) == [kind |-> "Loop", body |-> body]

\* The pass over self.ops from tag i on, with the stack `queue` of
\* in-progress sequences and the current one, `cur` (the code's local inst).
\* failed: queue.pop().unwrap() met an empty queue and panicked.
RECURSIVE build_from(_, _, _, _)

\* The pass with v and inst exchanged in lines 149-150: the sequence just
\* finished gets the Loop, which wraps the popped one.
build_from_swapped(o, i, queue, cur) ==
    IF i > Len(o)
    THEN [failed |-> FALSE, inst |-> cur, queue |-> queue]
    ELSE CASE o[i] = "LoopStart" ->
                build_from(o, i + 1, Append(queue, cur), <<>>)
           [] o[i] = "LoopEnd" ->
                IF Len(queue) = 0
                THEN [failed |-> TRUE, inst |-> cur, queue |-> queue]
                ELSE LET v == queue[Len(queue)]
                     IN build_from(o, i + 1, SubSeq(queue, 1, Len(queue) - 1),
                                   Append(cur, Loop(v)))
           [] OTHER ->
                build_from(o, i + 1, queue, Append(cur, Leaf(o[i])))

build_from(o, i, queue, cur) ==
    IF i > Len(o)
    THEN [failed |-> FALSE, inst |-> cur, queue |-> queue]
    ELSE CASE o[i] = "LoopStart" ->
                build_from(o, i + 1, Append(queue, cur), <<>>)
           [] o[i] = "LoopEnd" ->
                IF Len(queue) = 0
                THEN [failed |-> TRUE, inst |-> cur, queue |-> queue]
                ELSE LET v == queue[Len(queue)]
                     IN build_from(o, i + 1, SubSeq(queue, 1, Len(queue) - 1),
                                   Append(v, Loop(cur)))
           [] OTHER ->
                build_from(o, i + 1, queue, Append(cur, Leaf(o[i])))

build_instruction(o) == build_from(o, 1, <<>>, <<>>)

\* The two-way tape: all cells zero, the head at position 0.  No walk of
\* at most MaxTape cells leaves these positions.
IdealPositions == (0 - MaxTape)..MaxTape
IdealTape == [pos |-> 0, cells |-> [p \in IdealPositions |-> 0], off |-> 0]

\* The cell under the head, and the tape with v written there.
IdealCell(t) == t.cells[t.pos]
IdealWrite(t, v) == [t EXCEPT !.cells[t.pos] = v]

\* The head moved one cell to the left, a cell put in front or not, and
\* one cell to the right.
IdealLeft(t, inserted) ==
    [t EXCEPT !.pos = @ - 1, !.off = IF inserted THEN @ + 1 ELSE @]
IdealRight(t) == [t EXCEPT !.pos = @ + 1]

(***************************************************************************)
(* The process: Init, exit and panic                                       *)
(***************************************************************************)
Init ==
    /\ pc = "main"
    /\ args \in Argv
    /\ source = <<>>
    /\ ops = <<>>
    /\ inst = <<>>
    /\ memory = <<>>
    /\ adress = 0
    /\ stack = <<>>
    /\ stdin = [known |-> FALSE, data |-> <<>>, pos |-> 0, reads |-> 0]
    /\ stdout = <<>>
    /\ console = <<>>
    /\ stderr = <<>>
    /\ exitCode = <<>>
    /\ overflow_checks = "unset"
    /\ printed = <<>>
    /\ phases = <<>>
    /\ ideal = IdealTape

\* The process ends with this exit code, having written err to stderr.
Exit(code, err) ==
    /\ pc' = "exited"
    /\ exitCode' = <<code>>
    /\ stderr' = stderr \o err

\* A panic of the main thread: the message goes to stderr, exit code 101.
Panic(msg) == Exit(101, <<msg>>)

(***************************************************************************)
(* main                                                                    *)
(***************************************************************************)
usage ==
    << "Usage: ./bf <argument>",
       "    argument:",
       "        <source-file>    Run brainfuck program.",
       "        -h|--help        Show this help" >>

\* Line 222 with `args.len() < 2` for `args.len() != 2`.
WantsUsage_few(a) == IF Len(a) < 2 THEN TRUE ELSE a[2] \in {"-h", "--help"}

\* Line 222; `||` does not look at args[1] when there is none.
WantsUsage(a) == IF Len(a) # 2 THEN TRUE ELSE a[2] \in {"-h", "--help"}

\* main, lines 222-233: the usage is printed and main returns Ok(()).
MainUsage ==
    /\ pc = "main"
    /\ WantsUsage(args)
    /\ console' = console \o usage
    /\ Exit(0, <<>>)
    /\ UNCHANGED <<ideal, args, source, ops, inst, memory, adress, stack, stdin,
                   stdout, overflow_checks, printed, phases>>

\* main, lines 235-243 with `return Ok(())` for the exit(1) of line 241.
MainReadErr_ReturnsOk ==
    /\ pc = "main"
    /\ ~WantsUsage(args)
    /\ console' = console \o
           << "Error occured while reading a file: " \o args[2],
              "No such file or directory (os error 2)" >>
    /\ Exit(0, <<>>)
    /\ UNCHANGED <<ideal, args, source, ops, inst, memory, adress, stack, stdin,
                   stdout, overflow_checks, printed, phases>>

\* main, lines 235-243, read_to_string fails: two lines, then exit(1).
MainReadErr ==
    /\ pc = "main"
    /\ ~WantsUsage(args)
    /\ console' = console \o
           << "Error occured while reading a file: " \o args[2],
              "No such file or directory (os error 2)" >>
    /\ Exit(1, <<>>)
    /\ UNCHANGED <<ideal, args, source, ops, inst, memory, adress, stack, stdin,
                   stdout, overflow_checks, printed, phases>>

\* main, lines 235-245, read_to_string gives s: interpreter::new(s), and
\* run() is entered.
MainReadOk ==
    /\ pc = "main"
    /\ ~WantsUsage(args)
    /\ \E s \in Sources : source' = s
    /\ ops' = <<>>
    /\ inst' = <<>>
    /\ pc' = "validate"
    /\ UNCHANGED <<ideal, args, memory, adress, stack, stdin, stdout, console,
                   stderr, exitCode, overflow_checks, printed, phases>>

(***************************************************************************)
(* run                                                                     *)
(***************************************************************************)
\* run, line 89 without the `?`: the Result of validate is dropped.
Validate_Unchecked ==
    /\ pc = "validate"
    /\ phases' = Append(phases, "validate")
    /\ pc' = "lex_code"
    /\ UNCHANGED <<ideal, args, source, ops, inst, memory, adress, stack, stdin,
                   stdout, console, stderr, exitCode, overflow_checks, printed>>

\* run, line 89: self.validate()?  An Err leaves run and main at once; the
\* runtime prints main's Err with {:?} and the process exits with 1.
Validate ==
    /\ pc = "validate"
    /\ phases' = Append(phases, "validate")
    /\ IF validate(source) = "Ok"
       THEN /\ pc' = "lex_code"
            /\ UNCHANGED <<stderr, exitCode>>
       ELSE Exit(1, <<"Error: \"" \o validate(source) \o "\"">>)
    /\ UNCHANGED <<ideal, args, source, ops, inst, memory, adress, stack, stdin,
                   stdout, console, overflow_checks, printed>>

\* run, line 90.
LexCode ==
    /\ pc = "lex_code"
    /\ phases' = Append(phases, "lex_code")
    /\ ops' = lex_code(source, ops)
    /\ pc' = "build_instruction"
    /\ UNCHANGED <<ideal, args, source, inst, memory, adress, stack, stdin, stdout,
                   console, stderr, exitCode, overflow_checks, printed>>

\* run, line 91.  A pop of the empty queue panics in unwrap.
BuildInstruction ==
    /\ pc = "build_instruction"
    /\ phases' = Append(phases, "build_instruction")
    /\ LET r == build_instruction(ops)
       IN IF r.failed
          THEN /\ Panic("called Option::unwrap() on a None value")
               /\ UNCHANGED inst
          ELSE /\ inst' = r.inst
               /\ pc' = "eval_instruction"
               /\ UNCHANGED <<stderr, exitCode>>
    /\ UNCHANGED <<ideal, args, source, ops, memory, adress, stack, stdin, stdout,
                   console, overflow_checks, printed>>

\* run, line 92, and eval_instruction up to its call of eval_liner.
EvalInstruction ==
    /\ pc = "eval_instruction"
    /\ phases' = Append(phases, "eval_instruction")
    /\ memory' = <<0>>
    /\ adress' = 0
    /\ stack' = <<1>>
    /\ ideal' = IdealTape
    /\ pc' = "eval_liner"
    /\ UNCHANGED <<args, source, ops, inst, stdin, stdout, console, stderr,
                   exitCode, overflow_checks, printed>>

(***************************************************************************)
(* eval_liner: where the walk is                                           *)
(***************************************************************************)
\* The instruction sequence of the innermost eval_liner call: stack[i], for
\* every call but the innermost, is the position of the Loop whose body the
\* next call walks.
RECURSIVE BodyAt(_, _)
BodyAt(tree, path) ==
    IF Len(path) <= 1 THEN tree ELSE BodyAt(tree[path[1]].body, Tail(path))

Cur == BodyAt(inst, stack)
Pos == stack[Len(stack)]
Cell == memory[adress + 1]

\* The innermost call's `for` is at an instruction of this kind.
AtOp(kind) ==
    /\ pc = "eval_liner"
    /\ Pos <= Len(Cur)
    /\ Cur[Pos].kind = kind

\* The innermost call's `for` has run out.
AtEnd == pc = "eval_liner" /\ Pos > Len(Cur)

\* The `for` moves on to the next instruction.
Advance == stack' = [stack EXCEPT ![Len(stack)] = @ + 1]

\* The builds an overflow can show to be this one.
Builds == IF overflow_checks = "unset" THEN {"on", "off"} ELSE {overflow_checks}

(***************************************************************************)
(* eval_liner: the helpers of the instructions                             *)
(***************************************************************************)
\* `+= 1` and `-= 1` on a u8 where they do not overflow, and as they wrap
\* where the build has no overflow checks.
add_u8(v) == (v + 1) % 256
sub_u8(v) == (v + 255) % 256

\* Lines 181-185 without the insert of line 182.
shift_left_no_insert(mem, adr) ==
    IF adr = 0
    THEN [memory |-> mem, adress |-> adr]
    ELSE [memory |-> mem, adress |-> adr - 1]

\* Lines 181-185 with the push of line 190 for the insert of line 182.
shift_left_push_back(mem, adr) ==
    IF adr = 0
    THEN [memory |-> Append(mem, 0), adress |-> adr]
    ELSE [memory |-> mem, adress |-> adr - 1]

\* Lines 181-185.
shift_left(mem, adr) ==
    IF adr = 0
    THEN [memory |-> <<0>> \o mem, adress |-> adr]
    ELSE [memory |-> mem, adress |-> adr - 1]

\* Lines 188-191 without the push of line 190.
shift_right_no_push(mem, adr) == [memory |-> mem, adress |-> adr + 1]

\* Lines 188-191 with the insert of line 182 for the push of line 190.
shift_right_insert_front(mem, adr) ==
    IF adr + 1 = Len(mem)
    THEN [memory |-> <<0>> \o mem, adress |-> adr + 1]
    ELSE [memory |-> mem, adress |-> adr + 1]

\* Lines 188-191.
shift_right(mem, adr) ==
    IF adr + 1 = Len(mem)
    THEN [memory |-> Append(mem, 0), adress |-> adr + 1]
    ELSE [memory |-> mem, adress |-> adr + 1]

\* `v as char` written with {}: the UTF-8 encoding of the code point v < 256.
print_char(v) ==
    IF v < 128 THEN <<v>> ELSE <<192 + (v \div 64), 128 + (v % 64)>>

\* What read_line takes from the stream `data` after `pos` bytes of it are
\* gone: the bytes up to and with the first newline, or all that is left.
read_line(data, pos) ==
    LET rest == SubSeq(data, pos + 1, Len(data))
        nl == { i \in 1..Len(rest) : rest[i] = 10 }
        n == IF nl = {} THEN Len(rest)
             ELSE CHOOSE i \in nl : \A j \in nl : i <= j
    IN SubSeq(rest, 1, n)

\* read_line gives Ok only for UTF-8: lead bytes and their continuation
\* bytes (the narrower second-byte ranges after E0, ED, F0, F4 left out).
RECURSIVE utf8_valid_from(_, _)
utf8_valid_from(b, i) ==
    IF i > Len(b)
    THEN TRUE
    ELSE LET n == CASE b[i] < 128 -> 1
                    [] b[i] \in 194..223 -> 2
                    [] b[i] \in 224..239 -> 3
                    [] b[i] \in 240..244 -> 4
                    [] OTHER -> 0
         IN /\ n > 0
            /\ i + n - 1 <= Len(b)
            /\ \A j \in (i + 1)..(i + n - 1) : b[j] \in 128..191
            /\ utf8_valid_from(b, i + n)

utf8_valid(b) == utf8_valid_from(b, 1)

\* Line 202 made to store 0 at the end of input instead of panicking.
get_char_eof_zero(input) ==
    IF Len(input) = 0
    THEN [panic |-> FALSE, byte |-> 0]
    ELSE [panic |-> FALSE, byte |-> input[1]]

\* Line 202 made to take the last byte of the line.
get_char_last(input) ==
    IF Len(input) = 0
    THEN [panic |-> TRUE, byte |-> 0]
    ELSE [panic |-> FALSE, byte |-> input[Len(input)]]

\* Line 202, input.as_bytes()[0]: the index panics on an empty input.
get_char(input) ==
    IF Len(input) = 0
    THEN [panic |-> TRUE, byte |-> 0]
    ELSE [panic |-> FALSE, byte |-> input[1]]

(***************************************************************************)
(* eval_liner: one action per instruction executed                         *)
(***************************************************************************)
\* Lines 174-176.  255 + 1 overflows the u8: a build with overflow checks
\* panics, a build without wraps.
Increment ==
    /\ AtOp("Increment")
    /\ IF Cell < 255
       THEN /\ memory' = [memory EXCEPT ![adress + 1] = add_u8(Cell)]
            /\ ideal' = IdealWrite(ideal, (IdealCell(ideal) + 1) % 256)
            /\ Advance
            /\ UNCHANGED <<pc, stderr, exitCode, overflow_checks>>
       ELSE \E b \in Builds :
                /\ overflow_checks' = b
                /\ IF b = "on"
                   THEN /\ Panic("attempt to add with overflow")
                        /\ UNCHANGED <<memory, stack, ideal>>
                   ELSE /\ memory' = [memory EXCEPT ![adress + 1] = add_u8(Cell)]
                        /\ ideal' = IdealWrite(ideal,
                                               (IdealCell(ideal) + 1) % 256)
                        /\ Advance
                        /\ UNCHANGED <<pc, stderr, exitCode>>
    /\ UNCHANGED <<args, source, ops, inst, adress, stdin, stdout, console,
                   printed, phases>>

\* Lines 177-179.  0 - 1 overflows the u8.
Decrement ==
    /\ AtOp("Decrement")
    /\ IF Cell > 0
       THEN /\ memory' = [memory EXCEPT ![adress + 1] = sub_u8(Cell)]
            /\ ideal' = IdealWrite(ideal, (IdealCell(ideal) + 255) % 256)
            /\ Advance
            /\ UNCHANGED <<pc, stderr, exitCode, overflow_checks>>
       ELSE \E b \in Builds :
                /\ overflow_checks' = b
                /\ IF b = "on"
                   THEN /\ Panic("attempt to subtract with overflow")
                        /\ UNCHANGED <<memory, stack, ideal>>
                   ELSE /\ memory' = [memory EXCEPT ![adress + 1] = sub_u8(Cell)]
                        /\ ideal' = IdealWrite(ideal,
                                               (IdealCell(ideal) + 255) % 256)
                        /\ Advance
                        /\ UNCHANGED <<pc, stderr, exitCode>>
    /\ UNCHANGED <<args, source, ops, inst, adress, stdin, stdout, console,
                   printed, phases>>

\* Lines 180-186.
ShiftLeft ==
    /\ AtOp("ShiftLeft")
    /\ adress = 0 => Len(memory) < MaxTape
    /\ memory' = shift_left(memory, adress).memory
    /\ adress' = shift_left(memory, adress).adress
    /\ ideal' = IdealLeft(ideal, adress = 0)
    /\ Advance
    /\ UNCHANGED <<pc, args, source, ops, inst, stdin, stdout, console,
                   stderr, exitCode, overflow_checks, printed, phases>>

\* Lines 187-192.
ShiftRight ==
    /\ AtOp("ShiftRight")
    /\ adress + 1 = Len(memory) => Len(memory) < MaxTape
    /\ memory' = shift_right(memory, adress).memory
    /\ adress' = shift_right(memory, adress).adress
    /\ ideal' = IdealRight(ideal)
    /\ Advance
    /\ UNCHANGED <<pc, args, source, ops, inst, stdin, stdout, console,
                   stderr, exitCode, overflow_checks, printed, phases>>

\* Lines 193-195.
PrintChar ==
    /\ AtOp("PrintChar")
    /\ Len(printed) < MaxOut
    /\ stdout' = stdout \o print_char(Cell)
    /\ printed' = Append(printed, Cell)
    /\ Advance
    /\ UNCHANGED <<ideal, pc, args, source, ops, inst, memory, adress, stdin,
                   console, stderr, exitCode, overflow_checks, phases>>

\* Lines 196-203.  The first read shows which stream standard input is.
\* Err(msg) panics with msg; at the end of input read_line gives Ok(0) and
\* leaves input empty, and input.as_bytes()[0] panics.
GetChar ==
    /\ AtOp("GetChar")
    /\ \E data \in (IF stdin.known THEN {stdin.data} ELSE Stdin) :
         LET input == read_line(data, stdin.pos)
             taken == [known |-> TRUE, data |-> data,
                       pos |-> stdin.pos + Len(input), reads |-> stdin.reads]
         IN IF ~utf8_valid(input)
            THEN /\ Panic("stream did not contain valid UTF-8")
                 /\ stdin' = taken
                 /\ UNCHANGED <<memory, stack, ideal>>
            ELSE IF get_char(input).panic
            THEN /\ Panic("index out of bounds: the len is 0 but the index is 0")
                 /\ stdin' = taken
                 /\ UNCHANGED <<memory, stack, ideal>>
            ELSE /\ memory' = [memory EXCEPT ![adress + 1] = get_char(input).byte]
                 /\ ideal' = IdealWrite(ideal, get_char(input).byte)
                 /\ stdin' = [taken EXCEPT !.reads = @ + 1]
                 /\ Advance
                 /\ UNCHANGED <<pc, stderr, exitCode>>
    /\ UNCHANGED <<args, source, ops, inst, adress, stdout, console,
                   overflow_checks, printed, phases>>

\* Lines 204-207: the cell is not zero, eval_liner is called on the body.
LoopEnter ==
    /\ AtOp("Loop")
    /\ Cell # 0
    /\ stack' = Append(stack, 1)
    /\ UNCHANGED <<ideal, pc, args, source, ops, inst, memory, adress, stdin, stdout,
                   console, stderr, exitCode, overflow_checks, printed, phases>>

\* Lines 204-213 without the `if` of line 205: the body is walked once
\* before the cell is looked at.
LoopSkip_DoWhile ==
    /\ AtOp("Loop")
    /\ Cell = 0
    /\ stack' = Append(stack, 1)
    /\ UNCHANGED <<ideal, pc, args, source, ops, inst, memory, adress, stdin, stdout,
                   console, stderr, exitCode, overflow_checks, printed, phases>>

\* Lines 204-205 and 212: the cell is zero, the Loop is passed by.
LoopSkip ==
    /\ AtOp("Loop")
    /\ Cell = 0
    /\ Advance
    /\ UNCHANGED <<ideal, pc, args, source, ops, inst, memory, adress, stdin, stdout,
                   console, stderr, exitCode, overflow_checks, printed, phases>>

\* Lines 206-211: the call on the body has returned and the cell is not
\* zero: `loop` calls eval_liner on the body again.
LoopRepeat ==
    /\ AtEnd
    /\ Len(stack) > 1
    /\ Cell # 0
    /\ stack' = [stack EXCEPT ![Len(stack)] = 1]
    /\ UNCHANGED <<ideal, pc, args, source, ops, inst, memory, adress, stdin, stdout,
                   console, stderr, exitCode, overflow_checks, printed, phases>>

\* Lines 208-210: the call on the body has returned and the cell is zero:
\* break, and the caller's `for` moves on.
LoopBreak ==
    /\ AtEnd
    /\ Len(stack) > 1
    /\ Cell = 0
    /\ stack' = [i \in 1..(Len(stack) - 1) |->
                    IF i = Len(stack) - 1 THEN stack[i] + 1 ELSE stack[i]]
    /\ UNCHANGED <<ideal, pc, args, source, ops, inst, memory, adress, stdin, stdout,
                   console, stderr, exitCode, overflow_checks, printed, phases>>

\* The outermost eval_liner returns: eval_instruction and run return, main
\* returns Ok(()) (lines 93, 247) and the process exits with 0.
EvalDone ==
    /\ AtEnd
    /\ Len(stack) = 1
    /\ Exit(0, <<>>)
    /\ UNCHANGED <<ideal, args, source, ops, inst, memory, adress, stack, stdin,
                   stdout, console, overflow_checks, printed, phases>>

Next ==
    \/ MainUsage
    \/ MainReadErr
    \/ MainReadOk
    \/ Validate
    \/ LexCode
    \/ BuildInstruction
    \/ EvalInstruction
    \/ Increment
    \/ Decrement
    \/ ShiftLeft
    \/ ShiftRight
    \/ PrintChar
    \/ GetChar
    \/ LoopEnter
    \/ LoopSkip
    \/ LoopRepeat
    \/ LoopBreak
    \/ EvalDone

Spec == Init /\ [][Next]_vars

\* Lines 88-94 once more: run() has returned Ok(()) (line 93) and is called
\* again on the same Interpreter.  source, ops and inst are fields and
\* stay; memory and adress are locals of eval_instruction and are gone.
RunAgain ==
    /\ AtEnd
    /\ Len(stack) = 1
    /\ Len(phases) = 4
    /\ pc' = "validate"
    /\ memory' = <<>>
    /\ adress' = 0
    /\ stack' = <<>>
    /\ UNCHANGED <<ideal, args, source, ops, inst, stdin, stdout, console,
                   stderr, exitCode, overflow_checks, printed, phases>>

\* A caller that calls run() a second time.
NextTwice ==
    \/ Next
    \/ RunAgain

SpecTwice == Init /\ [][NextTwice]_vars

TypeOK ==
    /\ pc \in {"main", "validate", "lex_code", "build_instruction",
               "eval_instruction", "eval_liner", "exited"}
    /\ \A i \in 1..Len(memory) : memory[i] \in 0..255
    /\ Len(memory) <= MaxTape
    /\ adress \in 0..MaxTape
    /\ Len(exitCode) <= 1
    /\ (pc = "exited") = (exitCode # <<>>)

(***************************************************************************)
(* What the claims speak of                                                *)
(***************************************************************************)
\* The '[' and ']' of a source, all other characters dropped.
Brackets(s) == SelectSeq(s, LAMBDA c : c \in {"[", "]"})

\* A bracket sequence with every adjacent pair "[]" removed, again and again.
RECURSIVE Reduce(_)
Reduce(b) ==
    IF \E i \in 1..(Len(b) - 1) : b[i] = "[" /\ b[i + 1] = "]"
    THEN LET i == CHOOSE j \in 1..(Len(b) - 1) : b[j] = "[" /\ b[j + 1] = "]"
         IN Reduce(SubSeq(b, 1, i - 1) \o SubSeq(b, i + 2, Len(b)))
    ELSE b

\* The brackets of s are properly nested and all closed: the bracket
\* sequence reduces to nothing.
ProperlyNested(s) == Reduce(Brackets(s)) = <<>>

\* How many times c occurs among the first n characters of s.
CountIn(s, n, c) == Cardinality({ i \in 1..n : s[i] = c })

\* Some prefix of s has more ']' than '['.
GoesNegative(s) ==
    \E n \in 1..Len(s) : CountIn(s, n, "]") > CountIn(s, n, "[")

\* run() has left validate with Ok, or with Err.
Accepted == pc = "lex_code"
Rejected == pc = "exited" /\ phases = <<"validate">>

\* C1: validate returns Ok exactly for the sources whose brackets are
\* properly nested and all closed; a source whose count of '[' minus ']'
\* is negative after some prefix is rejected, and so is one whose final
\* count is not zero.
C1_ValidateIffNested ==
    (Accepted \/ Rejected) =>
        /\ Accepted <=> ProperlyNested(source)
        /\ GoesNegative(source) => Rejected
        /\ CountIn(source, Len(source), "[") # CountIn(source, Len(source), "]")
               => Rejected

\* "][", whose count ends at zero, has been rejected.
C1_Witness == Rejected /\ source = <<"]", "[">>

\* C2: every Increment leaves (v + 1) mod 256 in the cell at the cursor
\* and every Decrement (v - 1) mod 256, and the evaluation goes on.
C2_WrapsAndNeverFaults ==
    [][ /\ AtOp("Increment") =>
            /\ pc' = "eval_liner"
            /\ memory'[adress + 1] = (Cell + 1) % 256
        /\ AtOp("Decrement") =>
            /\ pc' = "eval_liner"
            /\ memory'[adress + 1] = (Cell + 255) % 256 ]_vars

\* C3: the output stream is the sequence of the cell values PrintChar was
\* executed on, one byte each.
C3_OneRawBytePerPrintChar == stdout = printed

\* The evaluator has started: memory and adress exist.
Evaluating == Len(phases) = 4

\* The walk stands right behind a Loop of the sequence it is in.
JustLeftLoop == Len(stack) >= 1 /\ Pos > 1 /\ Cur[Pos - 1].kind = "Loop"

\* C4: a Loop is a while loop.  A pass of the body starts only on a cell
\* that is not zero and a Loop is left only on a cell that is zero; reached
\* on a zero cell the Loop is passed by with its body not entered; at the
\* end of a pass the body is left if the cell at the cursor is zero and is
\* started again if it is not; and in the middle of a pass every
\* instruction is followed by the next one of the body, whatever the cell.
C4_WhileLoop ==
    /\ [](Evaluating =>
            /\ (Len(stack) > 1 /\ Pos = 1) => Cell # 0
            /\ JustLeftLoop => Cell = 0)
    /\ [][ (pc = "eval_liner" /\ pc' = "eval_liner") =>
            LET n == Len(stack)
                next == [stack EXCEPT ![n] = @ + 1]
            IN IF AtOp("Loop")
               THEN /\ memory' = memory /\ adress' = adress
                    /\ stack' = IF Cell = 0 THEN next ELSE stack \o <<1>>
               ELSE IF AtEnd
               THEN /\ memory' = memory /\ adress' = adress
                    /\ stack' = IF Cell = 0
                                THEN [SubSeq(stack, 1, n - 1)
                                         EXCEPT ![n - 1] = @ + 1]
                                ELSE [stack EXCEPT ![n] = 1]
               ELSE stack' = next ]_vars

\* A Loop entered on cell 0 has been left on another cell, the one the
\* cursor was moved to.
C4_Witness ==
    /\ pc = "eval_liner"
    /\ JustLeftLoop
    /\ Len(stack) = 1
    /\ adress = 1
    /\ memory[1] # 0

\* C5: once the evaluator has started, the tape has at least one cell and
\* the cursor is an index of it.
C5_CursorInTape ==
    Evaluating => /\ Len(memory) >= 1
                  /\ 0 <= adress
                  /\ adress < Len(memory)

\* The tape has grown and the cursor is on its last cell, not the first.
C5_Witness ==
    /\ Evaluating
    /\ Len(memory) >= 3
    /\ adress = Len(memory) - 1

RunStages == <<"validate", "lex_code", "build_instruction", "eval_instruction">>

IsPrefix(p, s) == Len(p) <= Len(s) /\ \A i \in 1..Len(p) : p[i] = s[i]

\* C6: the stages of run() are entered in the order validate, lex_code,
\* build_instruction, eval_instruction, none before its turn; and a source
\* that is not properly nested ends the process in validate with an exit
\* code that is not 0: nothing lexed, nothing built, no tape, no output and
\* no input taken.
C6_ValidateGatesRun ==
    /\ IsPrefix(phases, RunStages)
    /\ Len(phases) < 2 => ops = <<>>
    /\ Len(phases) < 3 => inst = <<>>
    /\ Len(phases) < 4 =>
          /\ memory = <<>> /\ stack = <<>>
          /\ stdout = <<>> /\ printed = <<>>
          /\ ~stdin.known /\ stdin.pos = 0
    /\ (Len(phases) >= 1 /\ ~ProperlyNested(source)) =>
          /\ pc = "exited"
          /\ phases = <<"validate">>
          /\ exitCode \notin {<<>>, <<0>>}
          /\ console = <<>>

\* "+]" has ended the process.
C6_Witness ==
    /\ source = <<"+", "]">>
    /\ pc = "exited"
    /\ exitCode = <<1>>

\* A GetChar is executed with nothing left of the stream.
AtEndOfInput == AtOp("GetChar") /\ stdin.pos = Len(stdin'.data)

\* C7: a GetChar executed at the end of the input ends the process with an
\* exit code that is not 0, with the tape, the cursor and the output as
\* they were; and once the process has exited no step follows, so no
\* later instruction of the body or after it is executed.
C7_GetCharAtEndIsFatal ==
    [][ /\ AtEndOfInput =>
            /\ pc' = "exited"
            /\ exitCode' \notin {<<>>, <<0>>}
            /\ memory' = memory /\ adress' = adress /\ stack' = stack
            /\ stdout' = stdout /\ printed' = printed
        /\ pc # "exited" ]_vars

\* The process has ended at a GetChar in a Loop body, at the end of an
\* input that held a line.
C7_Witness ==
    /\ pc = "exited"
    /\ Len(stack) > 1
    /\ Cur[Pos].kind = "GetChar"
    /\ stdin.known /\ stdin.pos = Len(stdin.data) /\ stdin.reads >= 1
    /\ stderr = <<"index out of bounds: the len is 0 but the index is 0">>

\* The lines of a byte stream: each ends with its newline, but for a last
\* one that the end of the stream ends.
RECURSIVE LinesOf(_, _)
LinesOf(d, acc) ==
    IF d = <<>>
    THEN IF acc = <<>> THEN <<>> ELSE <<acc>>
    ELSE IF Head(d) = 10
         THEN <<Append(acc, 10)>> \o LinesOf(Tail(d), <<>>)
         ELSE LinesOf(Tail(d), Append(acc, Head(d)))

\* The bytes of the first k of these lines.
RECURSIVE BytesOf(_, _)
BytesOf(L, k) == IF k = 0 THEN 0 ELSE BytesOf(L, k - 1) + Len(L[k])

AllOps(kind) == \A i \in 1..Len(ops) : ops[i] = kind

AllZero == \A i \in 1..Len(memory) : memory[i] = 0

\* C9: in a program of ShiftLeft alone, after k of them the tape has k + 1
\* cells, all zero, and the cursor is 0; in a program of ShiftRight alone,
\* after k of them the tape has k + 1 cells, all zero, and the cursor is k.
C9_TapeGrowth ==
    (Evaluating /\ Len(stack) = 1) =>
        LET k == Pos - 1
        IN /\ AllOps("ShiftLeft") =>
                Len(memory) = k + 1 /\ adress = 0 /\ AllZero
           /\ AllOps("ShiftRight") =>
                Len(memory) = k + 1 /\ adress = k /\ AllZero

\* "<<<" has run to its end.
C9_Witness ==
    /\ pc = "exited"
    /\ exitCode = <<0>>
    /\ ops = <<"ShiftLeft", "ShiftLeft", "ShiftLeft">>
    /\ Len(memory) = 4

\* The fixed table of the lexer.
OpOf ==
    [c \in Control |->
        CASE c = "+" -> "Increment"
          [] c = "-" -> "Decrement"
          [] c = "<" -> "ShiftLeft"
          [] c = ">" -> "ShiftRight"
          [] c = "." -> "PrintChar"
          [] c = "," -> "GetChar"
          [] c = "[" -> "LoopStart"
          [] c = "]" -> "LoopEnd"]

\* The control characters of a source, in its order.
Controls(s) == SelectSeq(s, LAMBDA c : c \in Control)

\* The source s with c put in after its first i characters.
InsertAt(s, i, c) == SubSeq(s, 1, i) \o <<c>> \o SubSeq(s, i + 1, Len(s))

\* Some characters that are no control characters.
NonControl == {"x", " ", "#", "a"}

\* C10: the tags lexed are the control characters of the source, in its
\* order, each through the table; a non-control character put in anywhere
\* leaves the lexer's output as it is; and a source with no control
\* character gives no tag and no instruction, and its evaluation no output,
\* no input taken and the tape left as it started.
C10_LexerKeepsControlsOnly ==
    /\ pc = "build_instruction" =>
          /\ Len(ops) = Len(Controls(source))
          /\ \A i \in 1..Len(ops) : ops[i] = OpOf[Controls(source)[i]]
          /\ \A i \in 0..Len(source), c \in NonControl :
                lex_code(InsertAt(source, i, c), <<>>) = ops
    /\ (Len(phases) >= 2 /\ Controls(source) = <<>>) =>
          /\ ops = <<>>
          /\ inst = <<>>
          /\ stdout = <<>> /\ printed = <<>>
          /\ ~stdin.known /\ stdin.pos = 0
          /\ Evaluating => memory = <<0>> /\ adress = 0

\* "x,x." is lexed.
C10_Witness ==
    /\ pc = "build_instruction"
    /\ source = <<"x", ",", "x", ".">>
    /\ ops = <<"GetChar", "PrintChar">>

\* The instructions of a tree that are no Loop, its Loops, and how deep its
\* Loops are nested.
RECURSIVE LeafCount(_)
LeafCount(tree) ==
    IF tree = <<>>
    THEN 0
    ELSE (IF Head(tree).kind = "Loop" THEN LeafCount(Head(tree).body) ELSE 1)
         + LeafCount(Tail(tree))

RECURSIVE LoopCount(_)
LoopCount(tree) ==
    IF tree = <<>>
    THEN 0
    ELSE (IF Head(tree).kind = "Loop"
          THEN 1 + LoopCount(Head(tree).body)
          ELSE 0)
         + LoopCount(Tail(tree))

RECURSIVE TreeDepth(_)
TreeDepth(tree) ==
    IF tree = <<>>
    THEN 0
    ELSE LET h == IF Head(tree).kind = "Loop"
                  THEN 1 + TreeDepth(Head(tree).body)
                  ELSE 0
             r == TreeDepth(Tail(tree))
         IN IF h > r THEN h ELSE r

\* How many brackets are open after the first n characters of s, and the
\* most that are ever open.
OpenAfter(s, n) == CountIn(s, n, "[") - CountIn(s, n, "]")

BracketDepth(s) ==
    CHOOSE d \in 0..Len(s) :
        /\ \E n \in 0..Len(s) : OpenAfter(s, n) = d
        /\ \A n \in 0..Len(s) : OpenAfter(s, n) <= d

\* build_instruction has just returned.
Built == pc = "eval_instruction"

\* C11: the tree built from a validated source has as many instructions
\* that are no Loop as the source has control characters that are no
\* bracket, as many Loops as the source has '[', and Loops nested as deep
\* as the brackets of the source.
C11_TreeCounts ==
    Built =>
        /\ LeafCount(inst)
             = Cardinality({ i \in 1..Len(source) :
                               source[i] \in Control \ {"[", "]"} })
        /\ LoopCount(inst) = CountIn(source, Len(source), "[")
        /\ TreeDepth(inst) = BracketDepth(source)

\* The tree of "++[>+[-]<-]" is built: 7 leaves, 2 Loops, depth 2.
C11_Witness ==
    /\ Built
    /\ Len(source) = 11
    /\ LeafCount(inst) = 7
    /\ LoopCount(inst) = 2
    /\ TreeDepth(inst) = 2

\* How many of the first n tags are this one.
TagsIn(o, n, tag) == Cardinality({ i \in 1..n : o[i] = tag })

\* C12: for a source validate has accepted, the pass of build_instruction
\* never pops the empty stack; after every tag the stack is as high as
\* there are Loops open; and at the end of the pass it is empty.
C12_BuildStackBalanced ==
    /\ pc = "build_instruction" =>
          /\ \A n \in 0..Len(ops) :
                LET r == build_instruction(SubSeq(ops, 1, n))
                IN /\ ~r.failed
                   /\ Len(r.queue) = TagsIn(ops, n, "LoopStart")
                                       - TagsIn(ops, n, "LoopEnd")
          /\ build_instruction(ops).queue = <<>>
    /\ Len(phases) = 3 => (Built /\ stderr = <<>>)

\* "[[]]" is built: the stack has been two high and is popped twice.
C12_Witness ==
    /\ Built
    /\ source = <<"[", "[", "]", "]">>
    /\ Len(build_instruction(SubSeq(ops, 1, 2)).queue) = 2

\* A tree as tags again: a Loop is LoopStart, its body, LoopEnd.
RECURSIVE Flatten(_)
Flatten(tree) ==
    IF tree = <<>>
    THEN <<>>
    ELSE (IF Head(tree).kind = "Loop"
          THEN <<"LoopStart">> \o Flatten(Head(tree).body) \o <<"LoopEnd">>
          ELSE <<Head(tree).kind>>)
         \o Flatten(Tail(tree))

\* C19: the tree built from a validated source, flattened, is the tag
\* sequence lexed from it.
C19_FlattenIsLexed == Built => Flatten(inst) = ops

\* The tree of "+[>+<-]" is built.
C19_Witness ==
    /\ Built
    /\ inst = << Leaf("Increment"),
                 Loop(<< Leaf("ShiftRight"), Leaf("Increment"),
                         Leaf("ShiftLeft"), Leaf("Decrement") >>) >>

\* The command line has no or several arguments, or the one is a help flag.
UsageAsked ==
    IF Len(args) - 1 # 1 THEN TRUE ELSE args[2] = "-h" \/ args[2] = "--help"

\* C14: a command line with another number of arguments than one, or with
\* -h or --help, makes main print the usage and exit with 0: no source is
\* read, no interpreter is made and run() is not entered.
C14_UsageExitsZero ==
    (UsageAsked /\ pc # "main") =>
        /\ pc = "exited"
        /\ exitCode = <<0>>
        /\ Len(console) = 4
        /\ console[1] = "Usage: ./bf <argument>"
        /\ stderr = <<>>
        /\ source = <<>> /\ ops = <<>> /\ inst = <<>>
        /\ phases = <<>>
        /\ stdout = <<>>

\* The command with two paths has printed the usage.
C14_Witness ==
    /\ pc = "exited"
    /\ args = <<"bf", "a.bf", "b.bf">>
    /\ console = usage

\* The outermost eval_liner has walked all of self.inst.
RanToCompletion ==
    /\ pc = "exited"
    /\ Evaluating
    /\ Len(stack) = 1
    /\ Pos = Len(inst) + 1

\* C15: when the one path cannot be read, main prints two lines and the
\* process exits with 1, no interpreter made or run; when the file is read
\* and the program has run to its end, the process exits with 0.
C15_ReadFailureAndCompletion ==
    /\ (pc = "exited" /\ ~UsageAsked /\ phases = <<>>) =>
          /\ exitCode = <<1>>
          /\ Len(console) = 2
          /\ console[1] = "Error occured while reading a file: " \o args[2]
          /\ source = <<>> /\ ops = <<>> /\ inst = <<>>
          /\ stdout = <<>> /\ memory = <<>>
    /\ RanToCompletion => exitCode = <<0>>

\* The file could not be read.
C15_Witness ==
    /\ pc = "exited"
    /\ args = <<"bf", "prog.bf">>
    /\ Len(console) = 2
    /\ exitCode = <<1>>

\* C18: Increment, Decrement and GetChar leave the cursor, the length of
\* the tape and every cell but the one at the cursor as they are;
\* PrintChar leaves tape and cursor as they are; ShiftLeft keeps the tape
\* as the end of the new tape and ShiftRight as its beginning, so no cell
\* there was changes its value; and no step of the evaluator makes the
\* tape shorter.
C18_Frame ==
    [][ pc = "eval_liner" =>
          /\ (AtOp("Increment") \/ AtOp("Decrement") \/ AtOp("GetChar")) =>
                /\ adress' = adress
                /\ Len(memory') = Len(memory)
                /\ \A i \in 1..Len(memory) :
                      i # adress + 1 => memory'[i] = memory[i]
          /\ AtOp("PrintChar") => (memory' = memory /\ adress' = adress)
          /\ AtOp("ShiftLeft") =>
                LET d == Len(memory') - Len(memory)
                IN d >= 0 /\ SubSeq(memory', d + 1, Len(memory')) = memory
          /\ AtOp("ShiftRight") =>
                SubSeq(memory', 1, Len(memory)) = memory
          /\ Len(memory') >= Len(memory) ]_vars

\* A GetChar has stored into the second cell beside a first cell that is
\* not zero.
C18_Witness ==
    /\ pc = "eval_liner"
    /\ stdin.reads = 1
    /\ Len(memory) = 2
    /\ adress = 1
    /\ memory[1] # 0
    /\ memory[2] # 0

Transfer == <<"+", "[", ">", "+", "<", "-", "]">>
TransferOfInput == <<">", ",", "<", ",", "[", ">", "+", "<", "-", "]">>

\* The walk of TransferOfInput stands before the Loop, at the start of a
\* pass of its body, or behind the Loop.
AtPassBoundary ==
    \/ Len(stack) = 1 /\ Pos >= 5
    \/ Len(stack) = 2 /\ Pos = 1

\* C13: "+[>+<-]", whose Loop is reached on the tape [1] (cell 1 not yet
\* there, so zero), ends with exit code 0, cell 0 = 0, cell 1 = 1 and the
\* cursor on cell 0.  The transfer loop entered with cell 0 = n and
\* cell 1 = m (read from two input lines) has, when cell 0 holds c at the
\* start of a pass or behind the Loop, done n - c passes and brought cell 1
\* to (m + n - c) mod 256; and it ends with exit code 0, cell 0 = 0,
\* cell 1 = (m + n) mod 256 and the cursor on cell 0.
C13_TransferLoop ==
    /\ (source = Transfer /\ pc = "exited") =>
          /\ exitCode = <<0>>
          /\ memory = <<0, 1>>
          /\ adress = 0
    /\ (source = TransferOfInput /\ Evaluating /\ stdin.reads = 2) =>
          LET L == LinesOf(stdin.data, <<>>)
              m == L[1][1]
              n == L[2][1]
          IN /\ AtPassBoundary =>
                  /\ adress = 0
                  /\ memory[1] <= n
                  /\ memory[2] = (m + n - memory[1]) % 256
             /\ pc = "exited" =>
                  /\ exitCode = <<0>>
                  /\ memory = <<0, (m + n) % 256>>
                  /\ adress = 0

\* The walk is in the body of a Loop, and the body is this.
InBody(body) == pc = "eval_liner" /\ Len(stack) > 1 /\ Cur = body

\* The program has no Loop and no GetChar.
Straight ==
    \A i \in 1..Len(ops) : ops[i] \notin {"LoopStart", "LoopEnd", "GetChar"}

\* C20: a pass of `[-]` takes 1 from the cell at the cursor and a pass of
\* `[+]` adds 1 to it modulo 256, the cursor and the other cells left as
\* they are, and after a pass the Loop is left exactly when the cell is 0:
\* from a cell v, `[-]` is left after v passes and `[+]` after
\* (256 - v) mod 256.  A program with no Loop and no GetChar executes its
\* instructions one after the other, each once, and then exits with 0.
C20_CountingLoopsTerminate ==
    [][ /\ (InBody(<<Leaf("Decrement")>>) /\ Pos = 1) =>
              /\ pc' = "eval_liner"
              /\ memory' = [memory EXCEPT ![adress + 1] = Cell - 1]
              /\ adress' = adress
        /\ (InBody(<<Leaf("Increment")>>) /\ Pos = 1) =>
              /\ pc' = "eval_liner"
              /\ memory' = [memory EXCEPT ![adress + 1] = (Cell + 1) % 256]
              /\ adress' = adress
        /\ ((InBody(<<Leaf("Decrement")>>) \/ InBody(<<Leaf("Increment")>>))
              /\ Pos = 2) =>
              /\ memory' = memory /\ adress' = adress
              /\ Len(stack') = IF Cell = 0 THEN Len(stack) - 1 ELSE Len(stack)
        /\ (Straight /\ pc = "eval_liner") =>
              IF Pos > Len(inst)
              THEN pc' = "exited" /\ exitCode' = <<0>>
              ELSE pc' = "eval_liner" /\ stack' = <<Pos + 1>> ]_vars

\* C17: while and after the program is evaluated, the Vec and the cursor
\* are the two-way tape seen through a window that starts off cells left
\* of position 0, off being the number of cells put in front so far: the
\* head is at cursor - off, every cell i of the Vec holds what the
\* two-way tape holds at i - off, and outside the window the two-way tape
\* holds zeros only.
C17_RefinesTwoWayTape ==
    Evaluating =>
        /\ ideal.off \in 0..(Len(memory) - 1)
        /\ ideal.pos = adress - ideal.off
        /\ \A i \in 0..(Len(memory) - 1) :
               memory[i + 1] = ideal.cells[i - ideal.off]
        /\ \A p \in IdealPositions :
               ideal.cells[p] # 0 => (p + ideal.off) \in 0..(Len(memory) - 1)

\* `+<>` has run: a cell was put in front of the cell that holds 1, and
\* the cursor is back on that cell.
C17_Witness ==
    /\ source = <<"+", "<", ">">>
    /\ pc = "exited"
    /\ exitCode = <<0>>
    /\ ideal.off = 1
    /\ ideal.pos = 0
    /\ adress = 1
    /\ Cell = 1

\* The second call of run() has lexed, has built, is evaluating.
SecondLexed == Len(phases) >= 6
SecondBuilt == Len(phases) >= 7
SecondEvaluating == Len(phases) = 8

\* C16: the second call of run() on an Interpreter has the tags and the
\* instruction tree of the source, as the first call had, starts on the
\* tape [0] with the cursor at 0, and, when it has run to its end, the
\* PrintChar steps of the two calls were executed on the same cell values,
\* the second call's after the first call's.
C16_RunsAreIndependent ==
    /\ SecondLexed => ops = lex_code(source, <<>>)
    /\ SecondBuilt => inst = build_instruction(lex_code(source, <<>>)).inst
    /\ (SecondEvaluating /\ stack = <<1>>) => (memory = <<0>> /\ adress = 0)
    /\ (SecondEvaluating /\ pc = "exited" /\ exitCode = <<0>>) =>
           \E k \in 0..Len(printed) :
               /\ Len(printed) = 2 * k
               /\ SubSeq(printed, 1, k) = SubSeq(printed, k + 1, 2 * k)

====
